---- MODULE Spec2Model ----
(***************************************************************************)
(* A model of dev-tools/generate_notice.py (Python 2: it uses unicode.lower *)
(* and byte-string replace), the script that lists the Go module           *)
(* dependencies of a beat, finds and classifies their license files,       *)
(* writes NOTICE.txt or a CSV file and then rejects dependencies whose      *)
(* license is missing or not accepted.                                      *)
(*                                                                         *)
(* Python values are modelled as follows.  A str is a TLA+ string; a dict   *)
(* is a function whose DOMAIN is the set of keys present; a list is a       *)
(* sequence; None is the string NONE.  Python indexes from 0, the model     *)
(* from 1, and "not found" (-1 in Python) is 0.                             *)
(***************************************************************************)
EXTENDS Integers, Sequences, FiniteSets, TLC

VARIABLES
    pc,        \* position of the run of __main__
    golist,    \* the records `go list -deps -json` prints        (input)
    csvfile,   \* args.csvfile: TRUE when --csv is given          (input)
    skip,      \* SKIP_NOTICE as set from args.skip_notice        (input)
    modules,   \* the dict built by read_go_module_deps / gather_modules
    out,       \* what has been written to the open output file
    error,     \* the exception that ended the run, or NONE
    warned,    \* the "WARNING: Unknown license" lines printed
    vin,       \* version normalisation: the module record given  (input)
    vout,      \* version normalisation: the module record stored
    text,      \* classification: the license file's content      (input)
    summary    \* classification: what detect_license_summary returned

vars == <<pc, golist, csvfile, skip, modules, out, error, warned,
          vin, vout, text, summary>>

NONE == "<None>"

(***************************************************************************)
(* Python's str operations, computed on TLA+ strings.                      *)
(***************************************************************************)
CharAt(s, i) == SubSeq(s, i, i)

\* s.startswith(p)
StartsWith(s, p) == Len(p) <= Len(s) /\ SubSeq(s, 1, Len(p)) = p

\* the positions at which sub occurs in s
Occurrences(s, sub) ==
    { i \in 1..(Len(s) - Len(sub) + 1) : SubSeq(s, i, i + Len(sub) - 1) = sub }

\* sub in s
Contains(s, sub) == Occurrences(s, sub) /= {}

\* s.find(sub, from): the first position >= from, 0 when there is none
Find(s, sub, from) ==
    LET occ == { i \in Occurrences(s, sub) : i >= from }
    IN  IF occ = {} THEN 0 ELSE CHOOSE i \in occ : \A j \in occ : i <= j

\* s.rfind(sub): the last position, 0 when there is none
RFind(s, sub) ==
    LET occ == Occurrences(s, sub)
    IN  IF occ = {} THEN 0 ELSE CHOOSE i \in occ : \A j \in occ : i >= j

\* s.split(sep) for a non-empty sep
RECURSIVE Split(_, _)
Split(s, sep) ==
    LET i == Find(s, sep, 1)
    IN  IF i = 0 THEN <<s>>
        ELSE <<SubSeq(s, 1, i - 1)>> \o Split(SubSeq(s, i + Len(sep), Len(s)), sep)

UpperChars == "ABCDEFGHIJKLMNOPQRSTUVWXYZ"
LowerChars == "abcdefghijklmnopqrstuvwxyz"

\* unicode.lower on the upper case letters
LowerTable ==
    [c \in { CharAt(UpperChars, i) : i \in 1..Len(UpperChars) } |->
        CharAt(LowerChars, Find(UpperChars, c, 1))]

\* unicode.lower on one character
LowerChar(c) == IF c \in DOMAIN LowerTable THEN LowerTable[c] ELSE c

\* unicode.lower
RECURSIVE Lower(_)
Lower(s) ==
    IF s = "" THEN "" ELSE LowerChar(CharAt(s, 1)) \o Lower(SubSeq(s, 2, Len(s)))

\* the characters the model's strings use, in code point order
CodePoints == "+-./0123456789ABCDEFGHIJKLMNOPQRSTUVWXYZ_abcdefghijklmnopqrstuvwxyz"

OrdTable ==
    [c \in { CharAt(CodePoints, i) : i \in 1..Len(CodePoints) } |->
        Find(CodePoints, c, 1)]

Ord(c) == OrdTable[c]

\* a < b for two strings (Python compares code point by code point)
RECURSIVE StrLess(_, _)
StrLess(a, b) ==
    IF b = "" THEN FALSE
    ELSE IF a = "" THEN TRUE
    ELSE IF CharAt(a, 1) = CharAt(b, 1)
         THEN StrLess(SubSeq(a, 2, Len(a)), SubSeq(b, 2, Len(b)))
         ELSE Ord(CharAt(a, 1)) < Ord(CharAt(b, 1))

(***************************************************************************)
(* dict helpers                                                            *)
(***************************************************************************)
Has(d, k) == k \in DOMAIN d

Get(d, k, default) == IF k \in DOMAIN d THEN d[k] ELSE default

Put(d, k, v) == [x \in DOMAIN d \cup {k} |-> IF x = k THEN v ELSE d[x]]

Del(d, k) == [x \in DOMAIN d \ {k} |-> d[x]]

EmptyDict == [x \in {} |-> NONE]

(***************************************************************************)
(* read_go_module_deps, lines 78-96: what is stored for one module record  *)
(***************************************************************************)
\* if i > 0: version = version[:i]
StripIncompatible(version) ==
    LET i == RFind(version, "+incompatible")
    IN  IF i > 1 THEN SubSeq(version, 1, i - 1) ELSE version

\* lines 78-85: the version the normalisation starts from
EffectiveVersion(module) ==
    IF Has(module, "Replace") /\ DOMAIN module["Replace"] /= {}
    THEN Get(module["Replace"], "Version", NONE)
    ELSE module["Version"]

\* lines 81-83: the Overwrite-Path annotation
WithOverwrite(module) ==
    IF /\ Has(module, "Replace") /\ DOMAIN module["Replace"] /= {}
       /\ module["Replace"]["Path"] /= module["Path"]
    THEN Put(module, "Overwrite-Path", module["Replace"]["Path"])
    ELSE module

\* lines 87-96
WithVersion(module, version) ==
    IF version = NONE \/ version = "" THEN module
    ELSE LET v1    == StripIncompatible(version)
             parts == Split(v1, "-")
             v2    == IF Len(parts) = 3 THEN parts[1] ELSE v1
             m1    == IF Len(parts) = 3 THEN Put(module, "Revision", parts[3])
                                        ELSE module
         IN  IF v2 /= "v0.0.0" THEN Put(m1, "Version", v2) ELSE m1

\* lines 78-96
NormalizeModule(module) ==
    WithVersion(WithOverwrite(Del(module, "Version")), EffectiveVersion(module))

(***************************************************************************)
(* The version strings `go list` reports: a tagged release                 *)
(* vX.Y.Z[-PRERELEASE], or a pseudo-version, which ends in                  *)
(* TIMESTAMP-REVISION after "-", ".0." or "-0."; either may carry          *)
(* "+incompatible".                                                        *)
(***************************************************************************)
Timestamp == "20200101000000"
Hash      == "abcdef123456"

Bases == {"v1.2.3", "v0.0.0", "v17.12.0"}
PreReleases == {"", "-rc1", "-rc-1", "-ce-rc1"}
IncompatibleMarks == {"", "+incompatible"}

\* the three pseudo-version forms of the Go module reference
PseudoSuffix(pre) ==
    IF pre = "" THEN {"-" \o Timestamp \o "-" \o Hash,
                      "-0." \o Timestamp \o "-" \o Hash}
                ELSE {".0." \o Timestamp \o "-" \o Hash}

VersionShapes ==
    { [base |-> b, pre |-> p, suffix |-> s, inc |-> i] :
        b \in Bases, p \in PreReleases,
        s \in {""} \cup PseudoSuffix("") \cup PseudoSuffix("-"),
        i \in IncompatibleMarks }

WellFormed(sh) ==
    sh.suffix = "" \/ sh.suffix \in PseudoSuffix(sh.pre)

Render(sh) == sh.base \o sh.pre \o sh.suffix \o sh.inc

IsPseudo(sh) == sh.suffix /= ""

\* how the module's record carries the version: its own Version, or a
\* Replace directive (same path, another path, or a local directory, which
\* has no Version)
ReplaceKinds == {"none", "same", "other", "local"}

ModuleRecord(path, sh, rk) ==
    LET own == [Path |-> path, Dir |-> "/mod/" \o path]
    IN  CASE rk = "none"  -> Put(own, "Version", Render(sh))
          [] rk = "same"  -> Put(Put(own, "Version", "v9.9.9"), "Replace",
                                 [Path |-> path, Version |-> Render(sh)])
          [] rk = "other" -> Put(Put(own, "Version", "v9.9.9"), "Replace",
                                 [Path |-> "github.com/fork/x", Version |-> Render(sh)])
          [] rk = "local" -> Put(Put(own, "Version", Render(sh)), "Replace",
                                 [Path |-> "../x", Dir |-> "/src/x"])

\* whether the record has a version to normalise at all
HasVersion(rk) == rk /= "local"

(***************************************************************************)
(* SpecVersion: read_go_module_deps applied to one module record.          *)
(***************************************************************************)
\* SKIP_NOTICE: the list [] of line 365, or the one string that argparse
\* stores for -s / --skip-notice (line 392)
SkipList(items) == [str |-> FALSE, items |-> items, s |-> ""]
SkipString(s)   == [str |-> TRUE,  items |-> <<>>,  s |-> s]

Idle == /\ golist = <<>> /\ csvfile = FALSE /\ skip = SkipList(<<>>)
        /\ modules = EmptyDict /\ out = <<>> /\ error = NONE /\ warned = {}

InitVersion ==
    /\ pc = "version_in"
    /\ \E sh \in VersionShapes, rk \in ReplaceKinds :
          /\ WellFormed(sh)
          /\ vin = [shape |-> sh, rk |-> rk,
                    module |-> ModuleRecord("github.com/org/x", sh, rk)]
    /\ vout = EmptyDict
    /\ text = <<>> /\ summary = NONE
    /\ Idle

NormalizeVersion ==
    /\ pc = "version_in"
    /\ vout' = NormalizeModule(vin.module)
    /\ pc' = "version_out"
    /\ UNCHANGED <<golist, csvfile, skip, modules, out, error, warned, vin, text, summary>>

NextVersion == NormalizeVersion

SpecVersion == InitVersion /\ [][NextVersion]_vars

\* C8: the recorded Version holds no pseudo-version timestamp or revision and
\* no "+incompatible" marker; a pseudo-version is split so that Revision is
\* its revision hash; a Revision is recorded only for a pseudo-version; and a
\* version normalised to "v0.0.0" leaves no Version field.
C8_VersionNormalized ==
    pc = "version_out" =>
        LET sh     == vin.shape
            pseudo == HasVersion(vin.rk) /\ IsPseudo(sh)
        IN  /\ Has(vout, "Version") =>
                  /\ ~Contains(vout["Version"], Timestamp)
                  /\ ~Contains(vout["Version"], Hash)
                  /\ ~Contains(vout["Version"], "+incompatible")
            /\ pseudo => Has(vout, "Revision") /\ vout["Revision"] = Hash
            /\ Has(vout, "Revision") => pseudo
            /\ (HasVersion(vin.rk) /\ sh.base = "v0.0.0" /\ sh.pre = "")
                  => ~Has(vout, "Version")

(***************************************************************************)
(* License texts.  A text is a sequence of segments laid end to end.  A    *)
(* segment is one of the literals below as it appears in a file, or filler *)
(* that holds none of them:                                                *)
(*   s   the literal the segment is once normalised ("" for filler)        *)
(*   n   its length once normalised                                        *)
(*   ws  the extra white space characters of the file (every run of        *)
(*       white space longer than one, counted beyond its first character)  *)
(*   cq  the number of its double quotes the file writes as the three      *)
(*       bytes of a curly quote                                            *)
(* A literal occurs in a string exactly where a segment is that literal,   *)
(* character for character.                                                *)
(***************************************************************************)
\* lines 232-241 (each literal as re.sub(r"\s+", " ", ...) leaves it)
APACHE2_LICENSE_TITLES == <<
    "Apache License 2.0",
    "Apache License Version 2.0",
    "Apache License, Version 2.0",
    "licensed under the Apache 2.0 license",
    "Apache License ============== _Version 2.0, January 2004_"
    >>

\* lines 243-278 (each literal as re.sub(r"\s+", " ", ...) leaves it)
MIT_LICENSES == <<
    "Permission is hereby granted, free of charge, to any person obtain"
        \o "ing a copy of this software and associated documentation files (th"
        \o "e \"Software\"), to deal in the Software without restriction, includ"
        \o "ing without limitation the rights to use, copy, modify, merge, pub"
        \o "lish, distribute, sublicense, and/or sell copies of the Software, "
        \o "and to permit persons to whom the Software is furnished to do so, "
        \o "subject to the following conditions: The above copyright notice an"
        \o "d this permission notice shall be included in all copies or substa"
        \o "ntial portions of the Software. ",
    "Permission to use, copy, modify, and distribute this software for "
        \o "any purpose with or without fee is hereby granted, provided that t"
        \o "he above copyright notice and this permission notice appear in all"
        \o " copies.",
    "Permission is hereby granted, free of charge, to any person obtain"
        \o "ing a copy of this software and associated documentation files (th"
        \o "e 'Software'), to deal in the Software without restriction, includ"
        \o "ing without limitation the rights to use, copy, modify, merge, pub"
        \o "lish, distribute, sublicense, and/or sell copies of the Software, "
        \o "and to permit persons to whom the Software is furnished to do so, "
        \o "subject to the following conditions: ",
    "Permission is hereby granted, free of charge, to any person obtain"
        \o "ing a copy of this software and associated documentation files (th"
        \o "e \"Software\"), to deal in the Software without restriction, includ"
        \o "ing without limitation the rights to use, copy, modify, merge, pub"
        \o "lish, distribute, sublicense, and/or sell copies of the Software, "
        \o "and to permit persons to whom the Software is furnished to do so. "
        \o "THE SOFTWARE IS PROVIDED \"AS IS\", WITHOUT WARRANTY OF ANY KIND, EX"
        \o "PRESS OR IMPLIED, INCLUDING BUT NOT LIMITED TO THE WARRANTIES OF M"
        \o "ERCHANTABILITY, FITNESS FOR A PARTICULAR PURPOSE AND NONINFRINGEME"
        \o "NT. IN NO EVENT SHALL THE AUTHORS OR COPYRIGHT HOLDERS BE LIABLE F"
        \o "OR ANY CLAIM, DAMAGES OR OTHER LIABILITY, WHETHER IN AN ACTION OF "
        \o "CONTRACT, TORT OR OTHERWISE, ARISING FROM, OUT OF OR IN CONNECTION"
        \o " WITH THE SOFTWARE OR THE USE OR OTHER DEALINGS IN THE SOFTWARE. "
    >>

\* lines 280-288 (each literal as re.sub(r"\s+", " ", ...) leaves it)
BSD_LICENSE_CONTENTS == <<
    "Redistribution and use in source and binary forms, with or without"
        \o " modification, are permitted provided that the following condition"
        \o "s are met:",
    "Redistributions of source code must retain the above copyright not"
        \o "ice, this list of conditions and the following disclaimer.",
    "Redistributions in binary form must reproduce the above copyright "
        \o "notice, this list of conditions and the following disclaimer in th"
        \o "e documentation and/or other materials provided with the distribut"
        \o "ion. "
    >>

\* lines 290-295 (each literal as re.sub(r"\s+", " ", ...) leaves it)
BSD_LICENSE_3_CLAUSE == <<
    "Neither the name of",
    "nor the names of its contributors may be used to endorse or promot"
        \o "e products derived from this software without specific prior writt"
        \o "en permission."
    >>

\* lines 297-300 (each literal as re.sub(r"\s+", " ", ...) leaves it)
BSD_LICENSE_4_CLAUSE == <<
    "All advertising materials mentioning features or use of this softw"
        \o "are must display the following acknowledgement"
    >>

\* lines 302-304 (each literal as re.sub(r"\s+", " ", ...) leaves it)
CC_SA_4_LICENSE_TITLE == <<
    "Creative Commons Attribution-ShareAlike 4.0 International"
    >>

\* lines 306-308 (each literal as re.sub(r"\s+", " ", ...) leaves it)
LGPL_3_LICENSE_TITLE == <<
    "GNU LESSER GENERAL PUBLIC LICENSE Version 3"
    >>

\* lines 310-313 (each literal as re.sub(r"\s+", " ", ...) leaves it)
MPL_LICENSE_TITLES == <<
    "Mozilla Public License Version 2.0",
    "Mozilla Public License, version 2.0"
    >>

\* lines 315-317 (each literal as re.sub(r"\s+", " ", ...) leaves it)
UNIVERSAL_PERMISSIVE_LICENSE_TITLES == <<
    "The Universal Permissive License (UPL), Version 1.0"
    >>

\* lines 319-321 (each literal as re.sub(r"\s+", " ", ...) leaves it)
ISC_LICENSE_TITLE == <<
    "ISC License"
    >>

Lit(s)         == [s |-> s,  n |-> Len(s), ws |-> 0, cq |-> 0]
LitWs(s, k)    == [s |-> s,  n |-> Len(s), ws |-> k, cq |-> 0]
LitCurly(s, q) == [s |-> s,  n |-> Len(s), ws |-> 0, cq |-> q]
Pad(n)         == [s |-> "", n |-> n,      ws |-> 0, cq |-> 0]
PadWs(n, k)    == [s |-> "", n |-> n,      ws |-> k, cq |-> 0]

\* the number of characters (bytes) of a segment
SegLen(g) == g.n + g.ws + 2 * g.cq

\* line 327: re.sub(r"\s+", ' ', content)
CollapseWhitespace(content) ==
    [i \in 1..Len(content) |-> [content[i] EXCEPT !.ws = 0]]

\* line 329: .replace(b'\xe2\x80\x9c', '"').replace(b'\xe2\x80\x9d', '"')
ReplaceSmartQuotes(content) ==
    [i \in 1..Len(content) |-> [content[i] EXCEPT !.cq = 0]]

\* lines 327-329
Normalize(content) == ReplaceSmartQuotes(CollapseWhitespace(content))

\* the offset just after segment i
RECURSIVE EndOffset(_, _)
EndOffset(content, i) ==
    IF i = 0 THEN 0 ELSE EndOffset(content, i - 1) + SegLen(content[i])

\* sentence in content[0:window]
InWindow(content, window, sentence) ==
    \E i \in 1..Len(content) :
        /\ content[i].s = sentence /\ content[i].ws = 0 /\ content[i].cq = 0
        /\ EndOffset(content, i) <= window

\* any(sentence in content[0:window] for sentence in sentences)
AnyIn(content, window, sentences) ==
    \E k \in 1..Len(sentences) : InWindow(content, window, sentences[k])

\* all(sentence in content[0:window] for sentence in sentences)
AllIn(content, window, sentences) ==
    \A k \in 1..Len(sentences) : InWindow(content, window, sentences[k])

ApacheWindow == 1000
MitWindow    == 1000
BsdWindow    == 1000
MplWindow    == 300
CcWindow     == 3000
LgplWindow   == 3000
UplWindow    == 1500
IscWindow    == 1500

\* C3 mutant: Classify with the no-endorsement clause tested by any() instead
\* of all()
Classify_AnyNoEndorsement(content) ==
    IF AnyIn(content, ApacheWindow, APACHE2_LICENSE_TITLES) THEN "Apache-2.0"
    ELSE IF AnyIn(content, MitWindow, MIT_LICENSES) THEN "MIT"
    ELSE IF AllIn(content, BsdWindow, BSD_LICENSE_CONTENTS)
         THEN IF AnyIn(content, BsdWindow, BSD_LICENSE_3_CLAUSE)
              THEN IF AllIn(content, BsdWindow, BSD_LICENSE_4_CLAUSE)
                   THEN "BSD-4-Clause"
                   ELSE "BSD-3-Clause"
              ELSE "BSD-2-Clause"
    ELSE IF AnyIn(content, MplWindow, MPL_LICENSE_TITLES) THEN "MPL-2.0"
    ELSE IF AnyIn(content, CcWindow, CC_SA_4_LICENSE_TITLE) THEN "CC-BY-SA-4.0"
    ELSE IF AnyIn(content, LgplWindow, LGPL_3_LICENSE_TITLE) THEN "LGPL-3.0"
    ELSE IF AnyIn(content, UplWindow, UNIVERSAL_PERMISSIVE_LICENSE_TITLES) THEN "UPL-1.0"
    ELSE IF AnyIn(content, IscWindow, ISC_LICENSE_TITLE) THEN "ISC"
    ELSE "UNKNOWN"

\* C4 mutant: Classify with the MIT phrasings looked for in the MPL window
Classify_MitShortWindow(content) ==
    IF AnyIn(content, ApacheWindow, APACHE2_LICENSE_TITLES) THEN "Apache-2.0"
    ELSE IF AnyIn(content, MplWindow, MIT_LICENSES) THEN "MIT"
    ELSE IF AllIn(content, BsdWindow, BSD_LICENSE_CONTENTS)
         THEN IF AllIn(content, BsdWindow, BSD_LICENSE_3_CLAUSE)
              THEN IF AllIn(content, BsdWindow, BSD_LICENSE_4_CLAUSE)
                   THEN "BSD-4-Clause"
                   ELSE "BSD-3-Clause"
              ELSE "BSD-2-Clause"
    ELSE IF AnyIn(content, MplWindow, MPL_LICENSE_TITLES) THEN "MPL-2.0"
    ELSE IF AnyIn(content, CcWindow, CC_SA_4_LICENSE_TITLE) THEN "CC-BY-SA-4.0"
    ELSE IF AnyIn(content, LgplWindow, LGPL_3_LICENSE_TITLE) THEN "LGPL-3.0"
    ELSE IF AnyIn(content, UplWindow, UNIVERSAL_PERMISSIVE_LICENSE_TITLES) THEN "UPL-1.0"
    ELSE IF AnyIn(content, IscWindow, ISC_LICENSE_TITLE) THEN "ISC"
    ELSE "UNKNOWN"

\* C10 mutant: Classify with the MPL titles tested before the BSD family
Classify_MplBeforeBsd(content) ==
    IF AnyIn(content, ApacheWindow, APACHE2_LICENSE_TITLES) THEN "Apache-2.0"
    ELSE IF AnyIn(content, MitWindow, MIT_LICENSES) THEN "MIT"
    ELSE IF AnyIn(content, MplWindow, MPL_LICENSE_TITLES) THEN "MPL-2.0"
    ELSE IF AllIn(content, BsdWindow, BSD_LICENSE_CONTENTS)
         THEN IF AllIn(content, BsdWindow, BSD_LICENSE_3_CLAUSE)
              THEN IF AllIn(content, BsdWindow, BSD_LICENSE_4_CLAUSE)
                   THEN "BSD-4-Clause"
                   ELSE "BSD-3-Clause"
              ELSE "BSD-2-Clause"
    ELSE IF AnyIn(content, CcWindow, CC_SA_4_LICENSE_TITLE) THEN "CC-BY-SA-4.0"
    ELSE IF AnyIn(content, LgplWindow, LGPL_3_LICENSE_TITLE) THEN "LGPL-3.0"
    ELSE IF AnyIn(content, UplWindow, UNIVERSAL_PERMISSIVE_LICENSE_TITLES) THEN "UPL-1.0"
    ELSE IF AnyIn(content, IscWindow, ISC_LICENSE_TITLE) THEN "ISC"
    ELSE "UNKNOWN"

\* lines 330-352, on the normalised content
Classify(content) ==
    IF AnyIn(content, ApacheWindow, APACHE2_LICENSE_TITLES) THEN "Apache-2.0"
    ELSE IF AnyIn(content, MitWindow, MIT_LICENSES) THEN "MIT"
    ELSE IF AllIn(content, BsdWindow, BSD_LICENSE_CONTENTS)
         THEN IF AllIn(content, BsdWindow, BSD_LICENSE_3_CLAUSE)
              THEN IF AllIn(content, BsdWindow, BSD_LICENSE_4_CLAUSE)
                   THEN "BSD-4-Clause"
                   ELSE "BSD-3-Clause"
              ELSE "BSD-2-Clause"
    ELSE IF AnyIn(content, MplWindow, MPL_LICENSE_TITLES) THEN "MPL-2.0"
    ELSE IF AnyIn(content, CcWindow, CC_SA_4_LICENSE_TITLE) THEN "CC-BY-SA-4.0"
    ELSE IF AnyIn(content, LgplWindow, LGPL_3_LICENSE_TITLE) THEN "LGPL-3.0"
    ELSE IF AnyIn(content, UplWindow, UNIVERSAL_PERMISSIVE_LICENSE_TITLES) THEN "UPL-1.0"
    ELSE IF AnyIn(content, IscWindow, ISC_LICENSE_TITLE) THEN "ISC"
    ELSE "UNKNOWN"

\* lines 325-352
detect_license_summary(content) == Classify(Normalize(content))

(***************************************************************************)
(* The texts classified: up to MaxBlocks blocks, each a literal (plain,    *)
(* with longer white space runs, or with curly quotes), a group of the BSD *)
(* clauses, or filler.  The filler lengths put what follows just inside    *)
(* or outside each window.                                                 *)
(***************************************************************************)
MaxBlocks == 3

Singles(sentences) == { <<Lit(sentences[k])>> : k \in 1..Len(sentences) }

BsdCore == <<Lit(BSD_LICENSE_CONTENTS[1]), Lit(BSD_LICENSE_CONTENTS[2]),
             Lit(BSD_LICENSE_CONTENTS[3])>>

\* "Neither the name of <the copyright holder> nor the names of ..."
NoEndorsement == <<Lit(BSD_LICENSE_3_CLAUSE[1]), Pad(22), Lit(BSD_LICENSE_3_CLAUSE[2])>>

Advertising == <<Lit(BSD_LICENSE_4_CLAUSE[1])>>

Blocks ==
    { <<Pad(250)>>, <<Pad(500)>>, <<Pad(900)>>, <<Pad(1400)>>, <<Pad(2900)>>,
      <<PadWs(900, 600)>> }
    \cup Singles(APACHE2_LICENSE_TITLES)
    \cup Singles(MIT_LICENSES)
    \cup { <<LitCurly(MIT_LICENSES[1], 2)>>, <<LitWs(MIT_LICENSES[2], 40)>> }
    \cup { BsdCore, BsdCore \o NoEndorsement,
           <<Lit(BSD_LICENSE_CONTENTS[1]), Lit(BSD_LICENSE_CONTENTS[3])>>,
           NoEndorsement, <<Lit(BSD_LICENSE_3_CLAUSE[1])>>, Advertising }
    \cup Singles(MPL_LICENSE_TITLES)
    \cup Singles(CC_SA_4_LICENSE_TITLE)
    \cup Singles(LGPL_3_LICENSE_TITLE)
    \cup Singles(UNIVERSAL_PERMISSIVE_LICENSE_TITLES)
    \cup Singles(ISC_LICENSE_TITLE)

RECURSIVE Flatten(_)
Flatten(bs) == IF bs = <<>> THEN <<>> ELSE Head(bs) \o Flatten(Tail(bs))

(***************************************************************************)
(* SpecClassify: detect_license_summary applied to one text.               *)
(***************************************************************************)
InitClassify ==
    /\ pc = "classify_in"
    /\ \E k \in 0..MaxBlocks : \E bs \in [1..k -> Blocks] : text = Flatten(bs)
    /\ summary = NONE
    /\ vin = EmptyDict /\ vout = EmptyDict
    /\ Idle

DetectLicenseSummary ==
    /\ pc = "classify_in"
    /\ summary' = detect_license_summary(text)
    /\ pc' = "classify_out"
    /\ UNCHANGED <<golist, csvfile, skip, modules, out, error, warned, vin, vout, text>>

NextClassify == DetectLicenseSummary

SpecClassify == InitClassify /\ [][NextClassify]_vars

(***************************************************************************)
(* Claims about detect_license_summary, checked under SpecClassify.        *)
(***************************************************************************)
Classified == pc = "classify_out"

\* the text as the classifier tests it
Tested == Normalize(text)

\* sentence occurs somewhere in the tested text
Occurs(sentence) == \E i \in 1..Len(Tested) : Tested[i].s = sentence

\* sentence lies within the first w characters of the tested text
Within(w, sentence) == InWindow(Tested, w, sentence)

ApacheTitleWithin == \E k \in 1..5 : Within(1000, APACHE2_LICENSE_TITLES[k])
MitPhraseWithin   == \E k \in 1..4 : Within(1000, MIT_LICENSES[k])
BsdCoreWithin     == \A k \in 1..3 : Within(1000, BSD_LICENSE_CONTENTS[k])
NoEndorseWithin   == \A k \in 1..2 : Within(1000, BSD_LICENSE_3_CLAUSE[k])
AdvertWithin      == Within(1000, BSD_LICENSE_4_CLAUSE[1])

BsdVerdict ==
    IF NoEndorseWithin THEN (IF AdvertWithin THEN "BSD-4-Clause" ELSE "BSD-3-Clause")
    ELSE "BSD-2-Clause"

\* C3 as stated: a text containing the three BSD core clauses is BSD-3-Clause
\* when it also contains the no-endorsement clause and not the advertising
\* clause, BSD-4-Clause when it contains both, and BSD-2-Clause when it does
\* not contain the no-endorsement clause, wherever in the text they are and
\* whatever else the text holds.
C3_BsdByContainment ==
    Classified =>
        LET core == \A k \in 1..3 : Occurs(BSD_LICENSE_CONTENTS[k])
            ne   == \A k \in 1..2 : Occurs(BSD_LICENSE_3_CLAUSE[k])
            ad   == Occurs(BSD_LICENSE_4_CLAUSE[1])
        IN  /\ (core /\ ne /\ ~ad) => summary = "BSD-3-Clause"
            /\ (core /\ ne /\ ad)  => summary = "BSD-4-Clause"
            /\ (core /\ ~ne)       => summary = "BSD-2-Clause"

\* C3 amended: when the three BSD core clauses lie within the first 1000
\* characters of the normalised text and no Apache-2.0 title or MIT phrasing
\* does, the result is BSD-3-Clause if the no-endorsement clause lies within
\* those 1000 characters and the advertising clause does not, BSD-4-Clause if
\* both do, and BSD-2-Clause if the no-endorsement clause does not.
C3_BsdWithinWindow ==
    (Classified /\ BsdCoreWithin /\ ~ApacheTitleWithin /\ ~MitPhraseWithin)
        => summary = BsdVerdict

\* C3 witness: a text whose no-endorsement clause is cut short, after filler,
\* is BSD-2-Clause
C3_Witness ==
    /\ Classified /\ BsdCoreWithin
    /\ Within(1000, BSD_LICENSE_3_CLAUSE[1]) /\ ~NoEndorseWithin
    /\ Tested[1].s = ""
    /\ summary = "BSD-2-Clause"

\* C4 as stated: a text whose normalised form holds one of the four MIT
\* phrasings within its first 1000 characters is MIT, whatever surrounds it.
C4_MitWhateverSurrounds == (Classified /\ MitPhraseWithin) => summary = "MIT"

\* C4 amended: a text whose normalised form holds one of the four MIT
\* phrasings within its first 1000 characters, and no Apache-2.0 title within
\* them, is MIT, whatever else surrounds the phrase and however long it is.
C4_MitUnlessApache ==
    (Classified /\ MitPhraseWithin /\ ~ApacheTitleWithin) => summary = "MIT"

\* C4 witness: an MIT phrasing after filler, followed by the BSD core clauses
C4_Witness ==
    /\ Classified /\ MitPhraseWithin /\ ~ApacheTitleWithin
    /\ Tested[1].s = ""
    /\ \A k \in 1..3 : Occurs(BSD_LICENSE_CONTENTS[k])
    /\ summary = "MIT"

\* the rule table of C10: rule r holds on its own window
RuleHolds(r) ==
    CASE r = 1 -> ApacheTitleWithin
      [] r = 2 -> MitPhraseWithin
      [] r = 3 -> BsdCoreWithin
      [] r = 4 -> \E k \in 1..2 : Within(300, MPL_LICENSE_TITLES[k])
      [] r = 5 -> Within(3000, CC_SA_4_LICENSE_TITLE[1])
      [] r = 6 -> Within(3000, LGPL_3_LICENSE_TITLE[1])
      [] r = 7 -> Within(1500, UNIVERSAL_PERMISSIVE_LICENSE_TITLES[1])
      [] r = 8 -> Within(1500, ISC_LICENSE_TITLE[1])

RuleResult(r) ==
    CASE r = 1 -> "Apache-2.0"
      [] r = 2 -> "MIT"
      [] r = 3 -> BsdVerdict
      [] r = 4 -> "MPL-2.0"
      [] r = 5 -> "CC-BY-SA-4.0"
      [] r = 6 -> "LGPL-3.0"
      [] r = 7 -> "UPL-1.0"
      [] r = 8 -> "ISC"

RulesHolding == { r \in 1..8 : RuleHolds(r) }

\* C10: the result is that of the first rule, in the order Apache-2.0, MIT,
\* BSD family, MPL-2.0, CC-BY-SA-4.0, LGPL-3.0, UPL-1.0, ISC, that holds on
\* its window (1000, 1000, 1000, 300, 3000, 3000, 1500, 1500 characters) of
\* the normalised text, and "UNKNOWN" exactly when no rule holds.
C10_FirstMatch ==
    Classified =>
        LET holding == RulesHolding
            first   == CHOOSE r \in holding : \A q \in holding : r <= q
        IN  IF holding = {} THEN summary = "UNKNOWN"
            ELSE summary /= "UNKNOWN" /\ summary = RuleResult(first)

\* C10 witness: two rules hold and the earlier one decides
C10_Witness ==
    /\ Classified
    /\ 4 \in RulesHolding /\ 8 \in RulesHolding
    /\ RulesHolding \cap {1, 2, 3} = {}
    /\ summary = "MPL-2.0"

(***************************************************************************)
(* The run of __main__: gather_modules (read_go_module_deps, then the walk *)
(* for license files), write_notice_file or write_csv_file, and the check  *)
(* of the licenses found.                                                  *)
(***************************************************************************)
MaxPkgs == 2

\* lines 370-376: the defaults of --beat, --copyright and --excludes
Beat      == "Elastic Beats"
Copyright == "Elasticsearch BV"
Excludes  == <<"dev-tools", "build", "vendor", "docs">>

\* line 156: the year the clock gives
Year == "2020"

\* lines 133-136
SKIP_FILES == [m \in {"github.com/aws/aws-lambda-go"} |-> <<"LICENSE-SUMMARY">>]

\* lines 355-364
ACCEPTED_LICENSES ==
    <<"Apache-2.0", "MIT", "BSD-4-Clause", "BSD-3-Clause", "BSD-2-Clause",
      "MPL-2.0", "UPL-1.0", "ISC">>

InList(x, list) == \E i \in 1..Len(list) : list[i] = x

\* line 193: lib["license_file"] in SKIP_NOTICE
InSkipNotice(path, skipNotice) ==
    IF skipNotice.str THEN Contains(skipNotice.s, path)
                      ELSE InList(path, skipNotice.items)

\* the contents of the files of the module directories
ApacheText  == <<Pad(40), Lit(APACHE2_LICENSE_TITLES[3]), Pad(900)>>
MitText     == <<Pad(30), Lit(MIT_LICENSES[1]), Pad(480)>>
Bsd3Text    == <<Pad(30)>> \o BsdCore \o NoEndorsement \o <<Pad(200)>>
LgplText    == <<Pad(10), Lit(LGPL_3_LICENSE_TITLE[1]), Pad(2000)>>
UnknownText == <<Pad(700)>>
NoticeA     == <<Pad(120)>>
NoticeB     == <<Pad(80)>>
Readme      == <<Pad(300)>>

\* a directory of a module's tree: its path below the module directory and
\* its files, name -> contents
DirEntry(rel, files) == [rel |-> rel, files |-> files]

\* what os.walk finds below each module directory, top down
Tree(dir) ==
    CASE dir = "/mod/apache" ->
           << DirEntry(<<>>, ("LICENSE" :> ApacheText) @@ ("NOTICE" :> NoticeA)
                             @@ ("NOTICE.txt" :> NoticeB) @@ ("README.md" :> Readme)) >>
      [] dir = "/mod/mit" ->
           << DirEntry(<<>>, ("LICENSE" :> MitText) @@ ("NOTICE" :> NoticeA)),
              DirEntry(<<"vendor">>, ("LICENSE" :> LgplText)),
              DirEntry(<<"pkg">>, ("LICENSE.txt" :> Bsd3Text) @@ ("APLv2" :> ApacheText)
                                  @@ ("NOTICE" :> NoticeB)) >>
      [] dir = "/mod/none" ->
           << DirEntry(<<>>, ("README.md" :> Readme) @@ ("LICENSE-docs.md" :> MitText)),
              DirEntry(<<"docs">>, ("LICENSE" :> MitText)) >>
      [] dir = "/mod/unknown" ->
           << DirEntry(<<>>, ("COPYING" :> UnknownText)) >>
      [] dir = "/mod/lambda" ->
           << DirEntry(<<>>, ("LICENSE" :> ApacheText) @@ ("LICENSE-SUMMARY" :> Readme)
                             @@ ("LICENSE-LAMBDACODE" :> MitText)) >>
      [] dir = "/mod/lgpl" ->
           << DirEntry(<<>>, ("LICENSE" :> LgplText)) >>
      [] OTHER -> << >>

\* the packages `go list -deps -json` may print: one per dependency module,
\* a package of the standard library and a package of the main module
Packages ==
    { [ImportPath |-> "github.com/B/apache/pkg",
       Module |-> [Path |-> "github.com/B/apache", Dir |-> "/mod/apache",
                   Version |-> "v1.2.3"]],
      [ImportPath |-> "github.com/a/mit",
       Module |-> [Path |-> "github.com/a/mit", Dir |-> "/mod/mit",
                   Version |-> "v0.0.0-20200101000000-abcdef123456"]],
      [ImportPath |-> "github.com/A/mit",
       Module |-> [Path |-> "github.com/A/mit", Dir |-> "/mod/mit",
                   Version |-> "v2.0.0+incompatible"]],
      [ImportPath |-> "gopkg.in/none.v2",
       Module |-> [Path |-> "gopkg.in/none.v2", Dir |-> "/mod/none",
                   Version |-> "v2.2.8"]],
      [ImportPath |-> "github.com/c/unknown",
       Module |-> [Path |-> "github.com/c/unknown", Dir |-> "/mod/unknown",
                   Version |-> "v1.0.0",
                   Replace |-> [Path |-> "../unknown", Dir |-> "/mod/unknown"]]],
      [ImportPath |-> "github.com/aws/aws-lambda-go/lambda",
       Module |-> [Path |-> "github.com/aws/aws-lambda-go", Dir |-> "/mod/lambda",
                   Version |-> "v1.6.0",
                   Replace |-> [Path |-> "github.com/fork/aws-lambda-go",
                                Dir |-> "/mod/lambda", Version |-> "v1.6.1"]]],
      [ImportPath |-> "example.org/lgpl",
       Module |-> [Path |-> "example.org/lgpl", Dir |-> "/mod/lgpl",
                   Version |-> "v0.3.0"]],
      [ImportPath |-> "os", Standard |-> TRUE],
      [ImportPath |-> "github.com/elastic/beats/libbeat",
       Module |-> [Path |-> "github.com/elastic/beats", Dir |-> "/src/beats",
                   Main |-> TRUE]] }

\* what -s / --skip-notice may be
SkipNotices ==
    { SkipList(<<>>),
      SkipString("github.com/B/apache/LICENSE"),
      SkipString("github.com/a/mit/pkg/APLv2.txt") }

RECURSIVE Join(_, _)
Join(words, sep) ==
    IF words = <<>> THEN ""
    ELSE IF Len(words) = 1 THEN words[1]
    ELSE words[1] \o sep \o Join(Tail(words), sep)

\* sorted(strings): ascending by code point
RECURSIVE SortedStrings(_)
SortedStrings(S) ==
    IF S = {} THEN <<>>
    ELSE LET least == CHOOSE x \in S : \A y \in S : ~StrLess(y, x)
         IN  <<least>> \o SortedStrings(S \ {least})

\* every order of the elements of S
RECURSIVE Orders(_)
Orders(S) ==
    IF S = {} THEN {<<>>}
    ELSE UNION { { <<x>> \o o : o \in Orders(S \ {x}) } : x \in S }

\* lines 61-98: the modules dict after the records from index i on
RECURSIVE ReadRecords(_, _, _)
ReadRecords(records, i, acc) ==
    IF i > Len(records) THEN acc
    ELSE LET pkg == records[i]
         IN  IF Has(pkg, "Standard") THEN ReadRecords(records, i + 1, acc)
             ELSE IF Has(pkg["Module"], "Main") THEN ReadRecords(records, i + 1, acc)
             ELSE ReadRecords(records, i + 1,
                              Put(acc, pkg["Module"]["Path"], NormalizeModule(pkg["Module"])))

\* lines 32-98
read_go_module_deps(records) == ReadRecords(records, 1, EmptyDict)

\* lines 139-151
get_licenses(modpath, filenames) ==
    LET IsLicense(filename) ==
            \/ /\ StartsWith(filename, "LICENSE")
               /\ ~Contains(filename, "docs")
               /\ ~InList(filename, Get(SKIP_FILES, modpath, <<>>))
            \/ StartsWith(filename, "APLv2")
            \/ filename = "COPYING"
    IN  SelectSeq(SortedStrings(filenames), IsLicense)

\* fnmatch.filter(filenames, "NOTICE*")
NoticeFilenames(filenames) == { f \in filenames : StartsWith(f, "NOTICE") }

\* os.path.normpath(os.path.join(modpath, reldir, filename))
NormJoin(modpath, rel, filename) == Join(<<modpath>> \o rel \o <<filename>>, "/")

\* lines 109-111: a directory is walked unless a directory on its path
\* matches an exclude pattern
Walked(entry, excludes) ==
    \A i \in 1..Len(entry.rel) : ~InList(entry.rel[i], excludes)

\* lines 114-123: the license record of one license file
LicenseRecord(modpath, entry, filename) ==
    LET contents == entry.files[filename]
        notices  == NoticeFilenames(DOMAIN entry.files)
    IN  [license_file     |-> NormJoin(modpath, entry.rel, filename),
         license_contents |-> contents,
         license_summary  |-> detect_license_summary(contents),
         notice_files     |-> [ q \in { NormJoin(modpath, entry.rel, n) : n \in notices }
                                  |-> entry.files[CHOOSE n \in notices :
                                                     NormJoin(modpath, entry.rel, n) = q] ]]

\* lines 113-127 for one directory
DirLicenses(modpath, entry) ==
    LET names == get_licenses(modpath, DOMAIN entry.files)
    IN  [i \in 1..Len(names) |-> LicenseRecord(modpath, entry, names[i])]

\* lines 105-127 for one module: the licenses of the directories walked
ModuleLicenses(modpath, module, excludes) ==
    LET tree == Tree(module["Dir"])
    IN  Flatten([i \in 1..Len(tree) |->
                    IF Walked(tree[i], excludes) THEN DirLicenses(modpath, tree[i])
                                                 ELSE <<>>])

\* lines 125-126: the warnings printed for one module
ModuleWarnings(modpath, module, excludes) ==
    LET tree == Tree(module["Dir"])
        DirWarnings(entry) ==
            { "WARNING: Unknown license for " \o modpath \o ": "
                \o Join(<<module["Dir"]>> \o entry.rel \o <<f>>, "/") :
              f \in { g \in DOMAIN entry.files :
                        /\ InList(g, get_licenses(modpath, DOMAIN entry.files))
                        /\ detect_license_summary(entry.files[g]) = "UNKNOWN" } }
    IN  UNION { DirWarnings(tree[i]) :
                  i \in { j \in 1..Len(tree) : Walked(tree[j], excludes) } }

\* line 127: module["licenses"] is set only when a license file is found
WithLicenses(modpath, module, excludes) ==
    LET found == ModuleLicenses(modpath, module, excludes)
    IN  IF found = <<>> THEN module ELSE Put(module, "licenses", found)

\* module.get("licenses", [])
LicensesOf(module) == Get(module, "licenses", <<>>)

(***************************************************************************)
(* What is written to the output file: a sequence of writes, each a string *)
(* (lit) or the contents of a file read (raw).                             *)
(***************************************************************************)
W(s)    == [lit |-> s,  raw |-> <<>>]
WRaw(c) == [lit |-> "", raw |-> c]

Rule       == "--------------------------------------------------------------------\n"
DoubleRule == "==========================================================================\n"

\* lines 158-168
NoticeHeader ==
    << W(Beat \o "\n"),
       W("Copyright 2014-" \o Year \o " " \o Copyright \o "\n"),
       W("\n"),
       W("This product includes software developed by The Apache Software \n"
         \o "Foundation (http://www.apache.org/).\n\n"),
       W(DoubleRule),
       W("Third party libraries used by the " \o Beat \o " project:\n"),
       W(DoubleRule \o "\n") >>

\* lines 170-172
maybe_write(dict, key, print_key) ==
    IF Has(dict, key) THEN << W(print_key \o ": " \o dict[key] \o "\n") >> ELSE << >>

\* os.path.basename
Basename(path) == SubSeq(path, RFind(path, "/") + 1, Len(path))

\* lines 178-185
EntryHeader(key, module, lib) ==
    << W("\n" \o Rule), W("Dependency: " \o key \o "\n") >>
    \o maybe_write(module, "Version", "Version")
    \o maybe_write(module, "Revision", "Revision")
    \o maybe_write(module, "Overwrite-Path", "Overwrite")
    \o << W("License type (autodetected): " \o lib.license_summary \o "\n"),
          W(lib.license_file \o ":\n"),
          W(Rule) >>

\* lines 196-199, with the notice files in the order `order`, the order in
\* which lib["notice_files"].items() gives them
NoticeWrites(lib, order) ==
    Flatten([i \in 1..Len(order) |->
                << W("-------" \o Basename(order[i]) \o "-----\n"),
                   WRaw(lib.notice_files[order[i]]) >>])

\* C6 mutant: EntryBody writing the license text for every license,
\* Apache-2.0 too
EntryBody_AlwaysContents(lib, skipNotice, order) ==
    << WRaw(lib.license_contents) >>

\* C7 mutant: EntryBody writing the notice files whether or not the license
\* is skipped
EntryBody_NoSkip(lib, skipNotice, order) ==
    IF lib.license_summary /= "Apache-2.0"
    THEN << WRaw(lib.license_contents) >>
    ELSE << W("Apache License 2.0\n\n") >> \o NoticeWrites(lib, order)

\* lines 186-199
EntryBody(lib, skipNotice, order) ==
    IF lib.license_summary /= "Apache-2.0"
    THEN << WRaw(lib.license_contents) >>
    ELSE << W("Apache License 2.0\n\n") >>
         \o (IF InSkipNotice(lib.license_file, skipNotice)
             THEN << >>
             ELSE NoticeWrites(lib, order))

\* lines 178-199 for one license: what may be written, one sequence of
\* writes for each order the dict of notice files may have
EntryWrites(key, module, lib, skipNotice) ==
    { EntryHeader(key, module, lib) \o EntryBody(lib, skipNotice, order) :
        order \in Orders(DOMAIN lib.notice_files) }

\* the concatenations of one choice from each set of sequences in turn
RECURSIVE Concatenations(_)
Concatenations(choices) ==
    IF choices = <<>> THEN { <<>> }
    ELSE { a \o b : a \in Head(choices), b \in Concatenations(Tail(choices)) }

\* lines 177-199 for one module
ModuleEntries(key, module, skipNotice) ==
    LET libs == LicensesOf(module)
    IN  Concatenations([i \in 1..Len(libs) |->
                           EntryWrites(key, module, libs[i], skipNotice)])

\* C9 mutant: keys is in the order sorted() gives without key=unicode.lower
SortedByBytes(keys) ==
    \A i, j \in 1..Len(keys) : i < j => ~StrLess(keys[j], keys[i])

\* line 175: keys is an order sorted(modules, key=unicode.lower) may give
\* (keys that are equal once lower-cased keep the dict's order)
SortedByLower(keys) ==
    \A i, j \in 1..Len(keys) : i < j => ~StrLess(Lower(keys[j]), Lower(keys[i]))

\* lines 154-199, with the modules in the order keys: what may be written
write_notice_file(mods, skipNotice, keys) ==
    Concatenations(<< {NoticeHeader} >>
                   \o [i \in 1..Len(keys) |->
                         ModuleEntries(keys[i], mods[keys[i]], skipNotice)])

\* lines 210-214
get_url(repo) ==
    LET words == Split(repo, "/")
    IN  IF words[1] /= "github.com" THEN repo
        ELSE IF Len(words) < 3 THEN "IndexError"
        ELSE "https://github.com/" \o words[2] \o "/" \o words[3]

CsvRow(fields) == W(Join(fields, ",") \o "\r\n")

CsvHeader == CsvRow(<<"name", "url", "version", "revision", "license">>)

\* a module fails the check of lines 398-405
Missing(module) == LicensesOf(module) = <<>>

Rejected(lib) == ~InList(lib.license_summary, ACCEPTED_LICENSES)

Offending(module) ==
    Missing(module) \/ \E i \in 1..Len(LicensesOf(module)) : Rejected(LicensesOf(module)[i])

\* lines 399-405: the exception raised for an offending module
ValidationError(modpath, module) ==
    IF Missing(module) THEN "Exception: Missing license in module: " \o modpath
    ELSE LET libs == LicensesOf(module)
             i    == CHOOSE j \in 1..Len(libs) :
                        Rejected(libs[j]) /\ \A h \in 1..(j - 1) : ~Rejected(libs[h])
         IN  "Exception: Dependency " \o modpath \o " has invalid "
             \o libs[i].license_summary \o " license: " \o libs[i].license_file

Init ==
    /\ pc = "start"
    /\ \E n \in 0..MaxPkgs : golist \in [1..n -> Packages]
    /\ csvfile \in BOOLEAN
    /\ skip \in SkipNotices
    /\ modules = EmptyDict
    /\ out = <<>>
    /\ error = NONE
    /\ warned = {}
    /\ vin = EmptyDict /\ vout = EmptyDict
    /\ text = <<>> /\ summary = NONE

\* gather_modules, line 102
ReadGoModuleDeps ==
    /\ pc = "start"
    /\ modules' = read_go_module_deps(golist)
    /\ pc' = "deps"
    /\ UNCHANGED <<golist, csvfile, skip, out, error, warned, vin, vout, text, summary>>

\* gather_modules, lines 104-129
WalkLicenses ==
    /\ pc = "deps"
    /\ modules' = [k \in DOMAIN modules |-> WithLicenses(k, modules[k], Excludes)]
    /\ warned' = UNION { ModuleWarnings(k, modules[k], Excludes) : k \in DOMAIN modules }
    /\ pc' = "gathered"
    /\ UNCHANGED <<golist, csvfile, skip, out, error, vin, vout, text, summary>>

\* create_notice, lines 220-223
WriteNoticeFile ==
    /\ pc = "gathered"
    /\ ~csvfile
    /\ \E keys \in Orders(DOMAIN modules) :
          /\ SortedByLower(keys)
          /\ out' \in write_notice_file(modules, skip, keys)
    /\ pc' = "written"
    /\ UNCHANGED <<golist, csvfile, skip, modules, error, warned, vin, vout, text, summary>>

\* create_notice, lines 224-228, with write_csv_file, lines 202-207: after
\* the header row, `for lib in dependencies[key]` walks the keys of the
\* first module's dict, get_url(key) is evaluated, and lib.get fails on a str
WriteCsvFile ==
    /\ pc = "gathered"
    /\ csvfile
    /\ out' = << CsvHeader >>
    /\ IF modules = EmptyDict
       THEN /\ pc' = "written"
            /\ error' = error
       ELSE \E keys \in Orders(DOMAIN modules) :
               /\ SortedByLower(keys)
               /\ pc' = "aborted"
               /\ error' = IF get_url(keys[1]) = "IndexError"
                           THEN "IndexError: list index out of range"
                           ELSE "AttributeError: 'unicode' object has no attribute 'get'"
    /\ UNCHANGED <<golist, csvfile, skip, modules, warned, vin, vout, text, summary>>

\* __main__, lines 397-405; modules.items() may give the modules in any order
Validate ==
    /\ pc = "written"
    /\ IF \E k \in DOMAIN modules : Offending(modules[k])
       THEN \E k \in DOMAIN modules :
               /\ Offending(modules[k])
               /\ error' = ValidationError(k, modules[k])
               /\ pc' = "aborted"
       ELSE /\ pc' = "done"
            /\ error' = error
    /\ UNCHANGED <<golist, csvfile, skip, modules, out, warned, vin, vout, text, summary>>

Next == ReadGoModuleDeps \/ WalkLicenses \/ WriteNoticeFile \/ WriteCsvFile \/ Validate

Spec == Init /\ [][Next]_vars

(***************************************************************************)
(* Claims about the run, checked under Spec.                               *)
(***************************************************************************)
Finished == pc \in {"done", "aborted"}

\* the run was ended by the check of lines 398-405
AbortedByCheck == pc = "aborted" /\ StartsWith(error, "Exception: ")

\* the writer has returned
Reported == pc \in {"written", "done"} \/ AbortedByCheck

\* the license entries: module path and index in its licenses
LicenseEntries ==
    UNION { { <<k, i>> : i \in 1..Len(LicensesOf(modules[k])) } : k \in DOMAIN modules }

LibOf(e) == LicensesOf(modules[e[1]])[e[2]]

\* where in the notice file the entry of license file f has its "f:" line
FileLines(f) == { p \in 1..Len(out) : out[p] = W(f \o ":\n") }

\* the writes of the entry whose "f:" line is at p that follow its closing
\* rule, up to the next entry
BodyAfter(p) ==
    LET starts == { q \in (p + 1)..Len(out) : out[q] = W("\n" \o Rule) }
        stop   == IF starts = {} THEN Len(out) + 1
                  ELSE CHOOSE q \in starts : \A r \in starts : q <= r
    IN  SubSeq(out, p + 2, stop - 1)

Stamp == W("Apache License 2.0\n\n")

\* body is, for each notice file of lib once, a banner naming it and then
\* its contents
IsNoticeFilesBody(body, lib) ==
    /\ Len(body) = 2 * Cardinality(DOMAIN lib.notice_files)
    /\ \A q \in DOMAIN lib.notice_files :
          \E j \in 1..Len(body) :
              /\ j % 2 = 1
              /\ body[j] = W("-------" \o Basename(q) \o "-----\n")
              /\ body[j + 1] = WRaw(lib.notice_files[q])

\* the entry of lib is written once and its body satisfies Good
EntryBodyIs(lib, Good(_)) ==
    /\ Cardinality(FileLines(lib.license_file)) = 1
    /\ \A p \in FileLines(lib.license_file) :
          /\ out[p + 1] = W(Rule)
          /\ Good(BodyAfter(p))

\* every license found has its entry in the report written
ReportComplete ==
    \A e \in LicenseEntries :
        IF csvfile
        THEN \E p \in 2..Len(out) :
                LET fields == Split(out[p].lit, ",")
                IN  fields[1] = e[1] /\ fields[5] = LibOf(e).license_summary \o "\r\n"
        ELSE FileLines(LibOf(e).license_file) /= {}

\* C1: the run ends without aborting only if every dependency has a license
\* entry and every entry's summary is in the allow-list; when a dependency
\* has none, or an entry's summary is not in the allow-list, the run aborts
\* with an error naming an offending dependency path.
C1_AbortNamesOffender ==
    LET allowed == {"Apache-2.0", "MIT", "BSD-4-Clause", "BSD-3-Clause",
                    "BSD-2-Clause", "MPL-2.0", "UPL-1.0", "ISC"}
        bad(k)  == \/ ~Has(modules[k], "licenses")
                   \/ \E e \in LicenseEntries :
                         e[1] = k /\ LibOf(e).license_summary \notin allowed
    IN  /\ pc = "done" => \A k \in DOMAIN modules : ~bad(k)
        /\ (Finished /\ \E k \in DOMAIN modules : bad(k)) =>
              /\ pc = "aborted"
              /\ \E k \in DOMAIN modules : bad(k) /\ Contains(error, k)

\* C2: the check of the licenses starts only after the report is written; a
\* license that is not accepted does not abort the gathering or the writing,
\* its entry is written like any other, and the run is aborted only by the
\* check, with the report completely written.
C2_CheckAfterReport ==
    /\ Reported => ReportComplete
    /\ (Finished /\ \E e \in LicenseEntries :
                       ~InList(LibOf(e).license_summary, ACCEPTED_LICENSES))
          => (AbortedByCheck /\ ReportComplete)

\* C5: the CSV file holds the header row and then exactly one row per
\* (dependency, license) pair: path, URL, version, revision, summary.
C5_CsvRows ==
    (csvfile /\ (Finished \/ pc = "written")) =>
        \E keys \in Orders(DOMAIN modules) :
            /\ SortedByLower(keys)
            /\ out = << CsvHeader >>
                     \o Flatten([n \in 1..Len(keys) |->
                          LET k == keys[n]
                              libs == LicensesOf(modules[k])
                              url == IF StartsWith(k, "github.com/")
                                     THEN "https://github.com/" \o Split(k, "/")[2]
                                          \o "/" \o Split(k, "/")[3]
                                     ELSE k
                          IN  [i \in 1..Len(libs) |->
                                 CsvRow(<<k, url, Get(modules[k], "Version", ""),
                                          Get(modules[k], "Revision", ""),
                                          libs[i].license_summary>>)]])

\* C6 as stated: in the notice file the body of an Apache-2.0 entry is the
\* stamp and then every notice file found beside the license file, each
\* under a banner naming it, never the license text; the body of any other
\* entry is the license text alone.
C6_EntryBodies ==
    (~csvfile /\ Reported) =>
        \A e \in LicenseEntries :
            LET lib == LibOf(e)
                Good(body) ==
                    IF lib.license_summary = "Apache-2.0"
                    THEN /\ Len(body) >= 1 /\ body[1] = Stamp
                         /\ IsNoticeFilesBody(Tail(body), lib)
                    ELSE body = << WRaw(lib.license_contents) >>
            IN  EntryBodyIs(lib, Good)

\* C6 amended: as C6, except that the notice files are written only when the
\* license file path is not in SKIP_NOTICE; when it is, the body of the
\* Apache-2.0 entry is the stamp alone.
C6_EntryBodiesUnlessSkipped ==
    (~csvfile /\ Reported) =>
        \A e \in LicenseEntries :
            LET lib == LibOf(e)
                Good(body) ==
                    IF lib.license_summary = "Apache-2.0"
                    THEN /\ Len(body) >= 1 /\ body[1] = Stamp
                         /\ IF InSkipNotice(lib.license_file, skip)
                            THEN Tail(body) = << >>
                            ELSE IsNoticeFilesBody(Tail(body), lib)
                    ELSE body = << WRaw(lib.license_contents) >>
            IN  EntryBodyIs(lib, Good)

\* C6 witness: an Apache-2.0 entry with two notice files, not skipped, and another
\* license with a notice file beside it, are written
C6_Witness ==
    /\ ~csvfile /\ Reported
    /\ \E e \in LicenseEntries :
          /\ LibOf(e).license_summary = "Apache-2.0"
          /\ Cardinality(DOMAIN LibOf(e).notice_files) = 2
          /\ ~InSkipNotice(LibOf(e).license_file, skip)
    /\ \E e \in LicenseEntries :
          /\ LibOf(e).license_summary = "MIT"
          /\ DOMAIN LibOf(e).notice_files /= {}

\* C7 as stated: for an Apache-2.0 entry whose license file path is in
\* SKIP_NOTICE nothing follows the entry's header: no stamp, no notice file.
C7_SkippedEntryHasNoBody ==
    (~csvfile /\ Reported) =>
        \A e \in LicenseEntries :
            LET Good(body) == body = << >>
            IN  (/\ LibOf(e).license_summary = "Apache-2.0"
                 /\ InSkipNotice(LibOf(e).license_file, skip))
                    => EntryBodyIs(LibOf(e), Good)

\* C7 amended: for an Apache-2.0 entry whose license file path is in
\* SKIP_NOTICE the stamp follows the entry's header and nothing else: no
\* notice file banner, no notice file contents.
C7_SkippedEntryHasStampOnly ==
    (~csvfile /\ Reported) =>
        \A e \in LicenseEntries :
            LET Good(body) == body = << Stamp >>
            IN  (/\ LibOf(e).license_summary = "Apache-2.0"
                 /\ InSkipNotice(LibOf(e).license_file, skip))
                    => EntryBodyIs(LibOf(e), Good)

\* C7 witness: a skipped Apache-2.0 entry that has notice files is written
C7_Witness ==
    /\ ~csvfile /\ Reported
    /\ \E e \in LicenseEntries :
          /\ LibOf(e).license_summary = "Apache-2.0"
          /\ InSkipNotice(LibOf(e).license_file, skip)
          /\ DOMAIN LibOf(e).notice_files /= {}

\* the dependency paths of the entries written, in the order written
EntryKeys ==
    IF csvfile
    THEN [p \in 1..(Len(out) - 1) |-> Split(out[p + 1].lit, ",")[1]]
    ELSE LET lines == SelectSeq(out, LAMBDA w : StartsWith(w.lit, "Dependency: "))
         IN  [p \in 1..Len(lines) |-> SubSeq(lines[p].lit, 13, Len(lines[p].lit) - 1)]

====
